---- MODULE Spec2Model ----
(***************************************************************************)
(* A model of berenberg.py: the batch pipeline `run` (load, analyse,       *)
(* phase filter, enrich, calculate metrics, save) and, in detail, the      *)
(* quote-snapshot index, the three-offset lookup and the slippage column   *)
(* computed by calculate_metrics.                                          *)
(*                                                                         *)
(* Representation.                                                         *)
(*  - A DataFrame is a sequence of rows, a row a record keyed by column    *)
(*    name.  A frame variable that has not been assigned yet is << >>.     *)
(*  - A timestamp cell is [kind, t]: kind "str" (as read) or "datetime"    *)
(*    (after pd.to_datetime), t the instant in units of 1/UnitsPerSecond   *)
(*    of a second.                                                         *)
(*  - Prices in the input frames are integers, in tenths of the currency   *)
(*    unit (104 is 10.4).  Every computed float cell is an extended        *)
(*    rational [n, d]: d > 0 a finite value in lowest terms, 1/0 is +inf,  *)
(*    -1/0 is -inf and 0/0 is the null cell (None / NaN).  float64         *)
(*    rounding is not modelled: arithmetic is exact.                       *)
(*  - listing_id and primary_mic are opaque keys (strings); "NaN" is the   *)
(*    null a left merge leaves when there is no reference row.             *)
(***************************************************************************)
EXTENDS Integers, Sequences, FiniteSets, TLC

VARIABLES
    executions_file,          \* parquet file at executions_path
    refdata_file,             \* parquet file at refdata_path
    marketdata_file,          \* parquet file at marketdata_path
    output_path,              \* where run is asked to write
    dirs,                     \* directories that exist
    output_file,              \* parquet file at output_path
    executions_df,            \* run's locals
    refdata_df,
    marketdata_df,
    filtered_executions_df,
    enriched_executions_df,
    output_df,
    agg_marketdata_df,        \* calculate_metrics' index (a set of rows)
    pc,                       \* position in run
    error,                    \* the exception that ended run, "" if none
    log                       \* logging.info messages, in order

vars == <<executions_file, refdata_file, marketdata_file, output_path, dirs,
          output_file, executions_df, refdata_df, marketdata_df,
          filtered_executions_df, enriched_executions_df, output_df,
          agg_marketdata_df, pc, error, log>>

(***************************************************************************)
(* Bounds of the checked input sets.                                       *)
(***************************************************************************)
RunMaxTrades == 2
RunMaxRefs == 2
RunMaxTicks == 1
IndexMaxTicks == 3
MatchMaxTicks == 3
MatchMaxTrades == 2
SlipMaxTicks == 2
SlipMaxTrades == 1

\* Resolution of the model's clock: t counts half seconds.
UnitsPerSecond == 2

CONTINUOUS == "CONTINUOUS_TRADING"

(***************************************************************************)
(* Floats.                                                                 *)
(***************************************************************************)
Abs(x) == IF x < 0 THEN -x ELSE x

Sign(x) == IF x > 0 THEN 1 ELSE IF x < 0 THEN -1 ELSE 0

RECURSIVE Gcd(_, _)
Gcd(a, b) == IF b = 0 THEN a ELSE Gcd(b, a % b)

NaN == [n |-> 0, d |-> 0]

PosInf == [n |-> 1, d |-> 0]

NegInf == [n |-> -1, d |-> 0]

\* The finite value a/b, b # 0, in lowest terms with a positive denominator.
Norm(a, b) ==
    LET g == Gcd(Abs(a), Abs(b))
    IN  [n |-> Sign(b) * (a \div g), d |-> Abs(b) \div g]

Fin(x) == [n |-> x, d |-> 1]

Zero == Fin(0)

IsNull(a) == a.d = 0 /\ a.n = 0

FNeg(a) == [n |-> -a.n, d |-> a.d]

FAdd(a, b) ==
    IF IsNull(a) \/ IsNull(b) THEN NaN
    ELSE IF a.d = 0 /\ b.d = 0 THEN (IF a.n = b.n THEN a ELSE NaN)
    ELSE IF a.d = 0 THEN a
    ELSE IF b.d = 0 THEN b
    ELSE Norm(a.n * b.d + b.n * a.d, a.d * b.d)

FSub(a, b) == FAdd(a, FNeg(b))

\* float64 division: x/0 is +-inf, 0/0 is NaN, nothing is raised.
FDiv(a, b) ==
    IF IsNull(a) \/ IsNull(b) THEN NaN
    ELSE IF b.d = 0 THEN (IF a.d = 0 THEN NaN ELSE Zero)
    ELSE IF b.n = 0 THEN (IF a.n = 0 THEN NaN
                          ELSE IF a.n > 0 THEN PosInf ELSE NegInf)
    ELSE IF a.d = 0 THEN (IF Sign(a.n) * Sign(b.n) > 0 THEN PosInf ELSE NegInf)
    ELSE Norm(a.n * b.d, a.d * b.n)

(***************************************************************************)
(* Frames.                                                                 *)
(***************************************************************************)
\* df[name] = values: the column is added, or replaced when it is there.
SetCols(row, cols) == cols @@ row

MapRows(df, F(_)) == [i \in 1..Len(df) |-> F(df[i])]

(***************************************************************************)
(* Timestamps.                                                             *)
(***************************************************************************)
ToDatetime(v) == [kind |-> "datetime", t |-> v.t]

FloorS(ts) == [kind |-> "datetime", t |-> ts.t - (ts.t % UnitsPerSecond)]

PlusSeconds(ts, s) == [kind |-> ts.kind, t |-> ts.t + s * UnitsPerSecond]

DateOf(ts) == ts.t \div (86400 * UnitsPerSecond)

(***************************************************************************)
(* calculate_metrics: the snapshot index.                                  *)
(***************************************************************************)
FilterContinuousNone(df) == df

FilterContinuous(df) == SelectSeq(df, LAMBDA r : r.market_state = CONTINUOUS)

FloorEventTimestamp(df) ==
    MapRows(df, LAMBDA r :
        SetCols(r, [event_timestamp |-> FloorS(ToDatetime(r.event_timestamp))]))

GroupKey(r) == <<r.event_timestamp, r.listing_id, r.primary_mic>>

AggBid(a, b) == IF b > a THEN b ELSE a

AggAskMax(a, b) == IF b > a THEN b ELSE a

AggAsk(a, b) == IF b < a THEN b ELSE a

\* groupby(...).agg(max, min): one row per key, folded over the rows in order.
\* The index is used through .loc only, so it is kept as a set of rows.
RECURSIVE GroupByAgg(_, _)
GroupByAgg(df, acc) ==
    IF df = << >> THEN acc
    ELSE LET r == Head(df)
             same == {g \in acc : GroupKey(g) = GroupKey(r)}
         IN  IF same = {}
             THEN GroupByAgg(Tail(df), acc \cup
                    {[event_timestamp |-> r.event_timestamp,
                      listing_id |-> r.listing_id,
                      primary_mic |-> r.primary_mic,
                      best_bid_price |-> r.best_bid_price,
                      best_ask_price |-> r.best_ask_price]})
             ELSE LET g == CHOOSE x \in same : TRUE
                  IN  GroupByAgg(Tail(df), (acc \ {g}) \cup
                        {[g EXCEPT
                            !.best_bid_price = AggBid(g.best_bid_price, r.best_bid_price),
                            !.best_ask_price = AggAsk(g.best_ask_price, r.best_ask_price)]})

BuildIndex(df) == GroupByAgg(FloorEventTimestamp(FilterContinuous(df)), {})

(***************************************************************************)
(* calculate_metrics: the lookup at an offset and the slippage column.     *)
(***************************************************************************)
TimeForLookupRounded(row, offset_seconds) ==
    PlusSeconds(FloorS([kind |-> "datetime",
                        t |-> row.TradeTime.t + (UnitsPerSecond \div 2)]),
                offset_seconds)

TimeForLookup(row, offset_seconds) ==
    PlusSeconds(FloorS(ToDatetime(row.TradeTime)), offset_seconds)

\* .loc[keys]: the row of the key, KeyError (-> None, None) when there is none.
fetch_market_data(agg, row, offset_seconds) ==
    LET keys == <<TimeForLookup(row, offset_seconds), row.listing_id, row.primary_mic>>
        hits == {g \in agg : GroupKey(g) = keys}
    IN  IF hits = {} THEN <<NaN, NaN>>
        ELSE LET data == CHOOSE g \in hits : TRUE
             IN  <<Fin(data.best_bid_price), Fin(data.best_ask_price)>>

MidPrice(bid, ask) == FDiv(FAdd(bid, ask), Fin(2))

\* The three columns of one offset, named with the loop's suffix.
OffsetCols(offset, bid, ask) ==
    CASE offset = 0 ->
           [best_bid |-> bid, best_ask |-> ask, mid_price |-> MidPrice(bid, ask)]
      [] offset = -1 ->
           [best_bid_min_1s |-> bid, best_ask_min_1s |-> ask,
            mid_price_min_1s |-> MidPrice(bid, ask)]
      [] offset = 1 ->
           [best_bid_1s |-> bid, best_ask_1s |-> ask,
            mid_price_1s |-> MidPrice(bid, ask)]

WithOffset(df, agg, offset) ==
    MapRows(df, LAMBDA row :
        LET q == fetch_market_data(agg, row, offset)
        IN  SetCols(row, OffsetCols(offset, q[1], q[2])))

SlippageClamped(row) ==
    LET spread == FSub(row.best_ask, row.best_bid)
        raw == IF row.Quantity > 0
               THEN FDiv(FSub(row.best_ask, Fin(row.Price)), spread)
               ELSE IF row.Quantity < 0
               THEN FDiv(FSub(Fin(row.Price), row.best_bid), spread)
               ELSE Zero
    IN  IF raw.d > 0 /\ raw.n < 0 THEN Zero
        ELSE IF raw.d > 0 /\ raw.n > raw.d THEN Fin(1)
        ELSE raw

\* np.select(conditions, choices, default=0), row by row.
SlippageOf(row) ==
    LET spread == FSub(row.best_ask, row.best_bid)
    IN  IF row.Quantity > 0
        THEN FDiv(FSub(row.best_ask, Fin(row.Price)), spread)
        ELSE IF row.Quantity < 0
        THEN FDiv(FSub(Fin(row.Price), row.best_bid), spread)
        ELSE Zero

WithSlippage(df) ==
    MapRows(df, LAMBDA row : SetCols(row, [slippage |-> SlippageOf(row)]))

MetricsOf(df, agg) ==
    WithSlippage(WithOffset(WithOffset(WithOffset(df, agg, 0), agg, -1), agg, 1))

(***************************************************************************)
(* The other stages.                                                       *)
(***************************************************************************)
WithDate(df) ==
    MapRows(df, LAMBDA r : SetCols(r, [Date |-> DateOf(ToDatetime(r.TradeTime))]))

WithEventDatetime(df) ==
    MapRows(df, LAMBDA r :
        SetCols(r, [event_timestamp |-> ToDatetime(r.event_timestamp)]))

SideOf(x) == IF x < 0 THEN 2 ELSE 1

WithSide(df) == MapRows(df, LAMBDA r : SetCols(r, [side |-> SideOf(r.Quantity)]))

RenameId(df) ==
    MapRows(df, LAMBDA r :
        [ISIN |-> r.ISIN, primary_ticker |-> r.primary_ticker,
         primary_mic |-> r.primary_mic, listing_id |-> r.id])

\* merge(..., on="ISIN", how="left"): the left rows in order, each once per
\* matching right row (in the right frame's order), or once with nulls.
RECURSIVE MergeLeft(_, _)
MergeLeft(left, right) ==
    IF left = << >> THEN << >>
    ELSE LET l == Head(left)
             m == SelectSeq(right, LAMBDA r : r.ISIN = l.ISIN)
             out == IF m = << >>
                    THEN << SetCols(l, [primary_ticker |-> "NaN",
                                        primary_mic |-> "NaN",
                                        listing_id |-> "NaN"]) >>
                    ELSE MapRows(m, LAMBDA r :
                           SetCols(l, [primary_ticker |-> r.primary_ticker,
                                       primary_mic |-> r.primary_mic,
                                       listing_id |-> r.listing_id]))
         IN  out \o MergeLeft(Tail(left), right)

CleanExecutions(df) == SelectSeq(df, LAMBDA r : r.Phase = CONTINUOUS)

Dirname(path) == IF path = "output/trading_metrics.parquet" THEN "output" ELSE ""

(***************************************************************************)
(* run, one action per stage.  No stage catches an exception: the first    *)
(* one raised ends the run.                                                *)
(***************************************************************************)
NextStage(stage) ==
    CASE stage = "load" -> "analyze"
      [] stage = "analyze" -> "clean"
      [] stage = "clean" -> "transform"
      [] stage = "transform" -> "calculate"
      [] stage = "calculate" -> "save"
      [] stage = "save" -> "done"

OnExceptionSwallowed(stage) == NextStage(stage)

OnException(stage) == "failed"

Missing == [exists |-> FALSE, rows |-> << >>]

File(rows) == [exists |-> TRUE, rows |-> rows]

Raise(exc) ==
    /\ error' = exc
    /\ pc' = OnException(pc)

LoadData ==
    /\ pc = "load"
    /\ IF ~executions_file.exists
       THEN /\ Raise("FileNotFoundError")
            /\ log' = log \o <<"Loading data...">>
            /\ UNCHANGED <<executions_df, refdata_df, marketdata_df>>
       ELSE IF ~refdata_file.exists
       THEN /\ Raise("FileNotFoundError")
            /\ log' = log \o <<"Loading data...">>
            /\ executions_df' = executions_file.rows
            /\ UNCHANGED <<refdata_df, marketdata_df>>
       ELSE IF ~marketdata_file.exists
       THEN /\ Raise("FileNotFoundError")
            /\ log' = log \o <<"Loading data...">>
            /\ executions_df' = executions_file.rows
            /\ refdata_df' = refdata_file.rows
            /\ UNCHANGED marketdata_df
       ELSE /\ executions_df' = executions_file.rows
            /\ refdata_df' = refdata_file.rows
            /\ marketdata_df' = marketdata_file.rows
            /\ log' = log \o <<"Loading data...", "Executions data count",
                                "Refdata count", "Marketdata count">>
            /\ pc' = NextStage(pc)
            /\ UNCHANGED error
    /\ UNCHANGED <<executions_file, refdata_file, marketdata_file, output_path,
                   dirs, output_file, filtered_executions_df,
                   enriched_executions_df, output_df, agg_marketdata_df>>

AnalyzeExecutions ==
    /\ pc = "analyze"
    /\ executions_df' = WithDate(executions_df)
    /\ marketdata_df' = WithEventDatetime(marketdata_df)
    /\ log' = log \o <<"Starting analysis of executions data...",
                        "Total number of executions", "Unique number of venues",
                        "Unique dates of executions", "Executions TradeTime ranges",
                        "Market data event_timestamp ranges">>
    /\ pc' = NextStage(pc)
    /\ UNCHANGED <<executions_file, refdata_file, marketdata_file, output_path,
                   dirs, output_file, refdata_df, filtered_executions_df,
                   enriched_executions_df, output_df, agg_marketdata_df, error>>

CleanExecutionsData ==
    /\ pc = "clean"
    /\ filtered_executions_df' = CleanExecutions(executions_df)
    /\ log' = log \o <<"Starting data cleaning for CONTINUOUS_TRADING executions...",
                        "Number of CONTINUOUS_TRADING executions",
                        "Filtered executions data count">>
    /\ pc' = NextStage(pc)
    /\ UNCHANGED <<executions_file, refdata_file, marketdata_file, output_path,
                   dirs, output_file, executions_df, refdata_df, marketdata_df,
                   enriched_executions_df, output_df, agg_marketdata_df, error>>

\* The side column is set on the frame passed in (filtered_executions_df);
\* the merge returns a new frame.
TransformAndEnrichData ==
    /\ pc = "transform"
    /\ filtered_executions_df' = WithSide(filtered_executions_df)
    /\ enriched_executions_df' =
           MergeLeft(WithSide(filtered_executions_df), RenameId(refdata_df))
    /\ log' = log \o <<"Starting data transformation and enrichment...",
                        "Data transformation and enrichment completed successfully.",
                        "Enriched executions data count">>
    /\ pc' = NextStage(pc)
    /\ UNCHANGED <<executions_file, refdata_file, marketdata_file, output_path,
                   dirs, output_file, executions_df, refdata_df, marketdata_df,
                   output_df, agg_marketdata_df, error>>

\* The columns are set on the frame passed in, which is also what is returned.
\* On a frame without rows the unpacking of zip(*apply(...)) into two names
\* raises ValueError, before any column is set.
CalculateMetrics ==
    /\ pc = "calculate"
    /\ agg_marketdata_df' = BuildIndex(marketdata_df)
    /\ IF Len(enriched_executions_df) = 0
       THEN /\ Raise("ValueError")
            /\ log' = log \o <<"Starting calculation of metrics...">>
            /\ UNCHANGED <<enriched_executions_df, output_df>>
       ELSE /\ enriched_executions_df' =
                   MetricsOf(enriched_executions_df, agg_marketdata_df')
            /\ output_df' = enriched_executions_df'
            /\ log' = log \o <<"Starting calculation of metrics...",
                                "Calculation of metrics completed successfully.">>
            /\ pc' = NextStage(pc)
            /\ UNCHANGED error
    /\ UNCHANGED <<executions_file, refdata_file, marketdata_file, output_path,
                   dirs, output_file, executions_df, refdata_df, marketdata_df,
                   filtered_executions_df>>

\* os.path.exists("") is False and os.makedirs("") raises FileNotFoundError.
SaveOutput ==
    /\ pc = "save"
    /\ LET output_dir == Dirname(output_path)
       IN  IF output_dir \notin dirs /\ output_dir = ""
           THEN /\ Raise("FileNotFoundError")
                /\ log' = log \o <<"Saving file">>
                /\ UNCHANGED <<dirs, output_file>>
           ELSE /\ dirs' = dirs \cup {output_dir}
                /\ output_file' = File(output_df)
                /\ log' = log \o <<"Saving file", "Output saved">>
                /\ pc' = NextStage(pc)
                /\ UNCHANGED error
    /\ UNCHANGED <<executions_file, refdata_file, marketdata_file, output_path,
                   executions_df, refdata_df, marketdata_df,
                   filtered_executions_df, enriched_executions_df, output_df,
                   agg_marketdata_df>>

Next ==
    \/ LoadData
    \/ AnalyzeExecutions
    \/ CleanExecutionsData
    \/ TransformAndEnrichData
    \/ CalculateMetrics
    \/ SaveOutput

NextMetrics == CalculateMetrics

(***************************************************************************)
(* The inputs the specifications draw from.                                *)
(***************************************************************************)
SeqsUpTo(S, n) == UNION {[1..k -> S] : k \in 0..n}

Stamp(kind, t) == [kind |-> kind, t |-> t]

Tick(kind, t, listing, mic, bid, ask, state) ==
    [event_timestamp |-> Stamp(kind, t), listing_id |-> listing,
     primary_mic |-> mic, best_bid_price |-> bid, best_ask_price |-> ask,
     market_state |-> state]

\* A trade as calculate_metrics receives it.
Trade(kind, t, qty, price, listing, mic) ==
    [TradeTime |-> Stamp(kind, t), Quantity |-> qty, Price |-> price,
     listing_id |-> listing, primary_mic |-> mic, Venue |-> "NYSE"]

\* An execution as the loader reads it.
Execution(kind, t, qty, price, isin, phase) ==
    [TradeTime |-> Stamp(kind, t), Quantity |-> qty, Price |-> price,
     ISIN |-> isin, Phase |-> phase, Venue |-> "NYSE"]

RefRows ==
    {[ISIN |-> "ISIN123", primary_ticker |-> "Ticker1", primary_mic |-> "XNYS",
      id |-> "L1"],
     [ISIN |-> "ISIN456", primary_ticker |-> "Ticker2", primary_mic |-> "XLON",
      id |-> "L2"]}

RunExecutions(kind) ==
    {Execution(kind, 3, q, 105, "ISIN123", ph) :
        q \in {-50, 0, 100}, ph \in {CONTINUOUS, "AUCTION"}}

RunTicks(kind) ==
    {Tick(kind, 2, "L1", "XNYS", 104, 106, st) : st \in {CONTINUOUS, "AUCTION"}}

FilesOf(S) == {Missing} \cup {File(rows) : rows \in S}

\* Ticks in four buckets (t = 2 and t = 3 share a second); the quote of a tick
\* outside continuous trading lies outside every continuous quote.
IndexTicks ==
    {Tick("str", k[1], k[2], "XNYS", b, a, CONTINUOUS) :
        k \in {<<2, "L1">>, <<3, "L1">>, <<4, "L1">>, <<3, "L2">>},
        b \in {104, 106}, a \in {106, 108}}
    \cup
    {Tick("str", k[1], k[2], "XNYS", 110, 102, "AUCTION") :
        k \in {<<2, "L1">>, <<3, "L1">>, <<4, "L1">>, <<3, "L2">>}}

IndexTrades == {Trade("str", 3, 100, 105, "L1", "XNYS")}

\* One quote per second, so that a matched quote tells which second it is of.
MatchTicks ==
    {Tick("str", t, l, "XNYS", 104 + t, 106 + t, CONTINUOUS) :
        t \in {0, 2, 4}, l \in {"L1", "L2"}}

MatchTrades ==
    {Trade("str", k[1], 100, 105, k[2], k[3]) :
        k \in {<<2, "L1", "XNYS">>, <<3, "L1", "XNYS">>,
               <<3, "L2", "XNYS">>, <<3, "L1", "XLON">>}}

SlipTicks ==
    {Tick("str", 2, "L1", "XNYS", b, a, st) :
        b \in {104, 106}, a \in {106, 108}, st \in {CONTINUOUS, "AUCTION"}}

SlipTrades ==
    {Trade("str", t, q, p, "L1", "XNYS") :
        t \in {2, 3}, q \in {-50, 0, 100}, p \in {103, 105, 106, 109}}

(***************************************************************************)
(* Specifications.                                                         *)
(***************************************************************************)
NoLocals ==
    /\ executions_df = << >>
    /\ refdata_df = << >>
    /\ filtered_executions_df = << >>
    /\ output_df = << >>
    /\ agg_marketdata_df = {}
    /\ output_file = Missing
    /\ error = ""
    /\ log = << >>

\* run is called on files that exist or not; no output directory exists yet.
Init ==
    /\ \E kind \in {"str", "datetime"} :
          /\ executions_file \in FilesOf(SeqsUpTo(RunExecutions(kind), RunMaxTrades))
          /\ marketdata_file \in FilesOf(SeqsUpTo(RunTicks(kind), RunMaxTicks))
    /\ refdata_file \in FilesOf(SeqsUpTo(RefRows, RunMaxRefs))
    /\ output_path \in {"trading_metrics.parquet", "output/trading_metrics.parquet"}
    /\ dirs = {}
    /\ NoLocals
    /\ marketdata_df = << >>
    /\ enriched_executions_df = << >>
    /\ pc = "load"

\* calculate_metrics is called on frames already in memory.
InitMetrics(trades, ticks) ==
    /\ enriched_executions_df \in trades
    /\ marketdata_df \in ticks
    /\ executions_file = Missing
    /\ refdata_file = Missing
    /\ marketdata_file = Missing
    /\ output_path = "output/trading_metrics.parquet"
    /\ dirs = {}
    /\ NoLocals
    /\ pc = "calculate"

InitIndex == InitMetrics(SeqsUpTo(IndexTrades, 1), SeqsUpTo(IndexTicks, IndexMaxTicks))

InitMatch ==
    InitMetrics(SeqsUpTo(MatchTrades, MatchMaxTrades), SeqsUpTo(MatchTicks, MatchMaxTicks))

InitSlip ==
    InitMetrics(SeqsUpTo(SlipTrades, SlipMaxTrades), SeqsUpTo(SlipTicks, SlipMaxTicks))

Spec == Init /\ [][Next]_vars

SpecIndex == InitIndex /\ [][NextMetrics]_vars

SpecMatch == InitMatch /\ [][NextMetrics]_vars

SpecSlip == InitSlip /\ [][NextMetrics]_vars

(***************************************************************************)
(* Properties.                                                             *)
(***************************************************************************)
\* The whole second a timestamp lies in, by integer division.
SecondOf(t) == (t \div UnitsPerSecond) * UnitsPerSecond

\* The snapshots of the index for the trade row's key, o seconds away.
SnapshotsAt(row, o) ==
    {g \in agg_marketdata_df :
        /\ g.event_timestamp.t = SecondOf(row.TradeTime.t) + o * UnitsPerSecond
        /\ g.listing_id = row.listing_id
        /\ g.primary_mic = row.primary_mic}

\* The rows calculate_metrics has returned (none before it returns).
Scored == {output_df[i] : i \in 1..Len(output_df)}

\* The matched columns of a scored row at offset o: bid, ask, mid.
MatchedAt(row, o) ==
    CASE o = 0 -> <<row.best_bid, row.best_ask, row.mid_price>>
      [] o = -1 -> <<row.best_bid_min_1s, row.best_ask_min_1s, row.mid_price_min_1s>>
      [] o = 1 -> <<row.best_bid_1s, row.best_ask_1s, row.mid_price_1s>>

\* C1: a trade whose offset-0 snapshot has best_ask # best_bid gets the
\* slippage (ask - Price) / (ask - bid) when Quantity > 0 and
\* (Price - bid) / (ask - bid) when Quantity < 0, as an exact fraction that
\* is not clamped to [0, 1].
C1_SlippageFormula ==
    \A row \in Scored : \A g \in SnapshotsAt(row, 0) :
        g.best_ask_price # g.best_bid_price =>
            LET spread == g.best_ask_price - g.best_bid_price
                s == row.slippage
            IN  /\ row.Quantity > 0 =>
                     /\ s.d > 0
                     /\ s.n * spread = (g.best_ask_price - row.Price) * s.d
                /\ row.Quantity < 0 =>
                     /\ s.d > 0
                     /\ s.n * spread = (row.Price - g.best_bid_price) * s.d

\* A buy above the ask, with a slippage below 0.
C1_Witness ==
    \E row \in Scored : \E g \in SnapshotsAt(row, 0) :
        /\ g.best_ask_price # g.best_bid_price
        /\ row.Quantity > 0
        /\ row.Price > g.best_ask_price
        /\ row.slippage.d > 0
        /\ row.slippage.n < 0

\* C2: with an empty index every trade has null bid, ask and mid at the
\* three offsets and a slippage of 0.
C2_EmptyIndexZeroSlippage ==
    agg_marketdata_df = {} =>
        \A row \in Scored :
            /\ \A o \in {-1, 0, 1} : \A k \in 1..3 : IsNull(MatchedAt(row, o)[k])
            /\ row.slippage = Zero

\* C3: a trade whose offset-0 snapshot has best_bid = best_ask gets the
\* slippage 0, and no division-by-zero result.
C3_ZeroSpreadZeroSlippage ==
    \A row \in Scored : \A g \in SnapshotsAt(row, 0) :
        g.best_ask_price = g.best_bid_price => row.slippage = Zero

\* The ticks (by position) in continuous trading whose key is that of g.
ContinuousTicksOf(g) ==
    {i \in 1..Len(marketdata_df) :
        /\ marketdata_df[i].market_state = CONTINUOUS
        /\ SecondOf(marketdata_df[i].event_timestamp.t) = g.event_timestamp.t
        /\ marketdata_df[i].listing_id = g.listing_id
        /\ marketdata_df[i].primary_mic = g.primary_mic}

IndexBuilt == pc # "calculate"

\* C4: the index has exactly one entry for each key (floored second,
\* listing_id, primary_mic) with a tick in continuous trading and none for
\* another key; its best_bid is the maximum bid and its best_ask the minimum
\* ask of exactly the continuous-trading ticks of the key.
C4_IndexOfContinuousTicks ==
    IndexBuilt =>
        /\ \A i \in 1..Len(marketdata_df) :
              marketdata_df[i].market_state = CONTINUOUS =>
                  \E g \in agg_marketdata_df : i \in ContinuousTicksOf(g)
        /\ \A g \in agg_marketdata_df : ContinuousTicksOf(g) # {}
        /\ \A g, h \in agg_marketdata_df : GroupKey(g) = GroupKey(h) => g = h
        /\ \A g \in agg_marketdata_df :
              /\ \A i \in ContinuousTicksOf(g) :
                    /\ marketdata_df[i].best_bid_price <= g.best_bid_price
                    /\ marketdata_df[i].best_ask_price >= g.best_ask_price
              /\ \E i \in ContinuousTicksOf(g) :
                    marketdata_df[i].best_bid_price = g.best_bid_price
              /\ \E i \in ContinuousTicksOf(g) :
                    marketdata_df[i].best_ask_price = g.best_ask_price

\* A bucket with two continuous ticks of different bids, and a tick in
\* another market state that the index ignores.
C4_Witness ==
    /\ IndexBuilt
    /\ \E g \in agg_marketdata_df :
          /\ \E i, j \in ContinuousTicksOf(g) :
                marketdata_df[i].best_bid_price < marketdata_df[j].best_bid_price
          /\ \E i \in 1..Len(marketdata_df) :
                /\ marketdata_df[i].market_state # CONTINUOUS
                /\ SecondOf(marketdata_df[i].event_timestamp.t) = g.event_timestamp.t
                /\ marketdata_df[i].listing_id = g.listing_id
                /\ marketdata_df[i].best_bid_price > g.best_bid_price

\* C5: at each offset o the recorded bid and ask are those of the snapshot
\* keyed (TradeTime floored to the second, plus o seconds, listing_id,
\* primary_mic) and the mid is their mean; with no such snapshot the three
\* are null, whatever the other offsets found.
C5_OffsetLookup ==
    \A row \in Scored : \A o \in {-1, 0, 1} :
        LET m == MatchedAt(row, o)
        IN  IF SnapshotsAt(row, o) = {}
            THEN IsNull(m[1]) /\ IsNull(m[2]) /\ IsNull(m[3])
            ELSE \A g \in SnapshotsAt(row, o) :
                    /\ m[1] = Fin(g.best_bid_price)
                    /\ m[2] = Fin(g.best_ask_price)
                    /\ m[3].d > 0
                    /\ 2 * m[3].n = (g.best_bid_price + g.best_ask_price) * m[3].d

\* A trade half a second into second 1: the quote of second 0 at -1s, no
\* quote at 0s, the quote of second 2 at +1s.
C5_Witness ==
    \E row \in Scored :
        /\ row.TradeTime.t = 3
        /\ row.best_bid_min_1s = Fin(104)
        /\ IsNull(row.best_bid) /\ IsNull(row.mid_price)
        /\ row.best_bid_1s = Fin(108)
        /\ row.mid_price_1s = Fin(109)

\* C6: calculate_metrics returns, for every input frame, a frame of the same
\* length whose i-th row is the i-th input row with its columns unchanged,
\* extended with the matched-quote and slippage columns.
C6_OrderPreserved ==
    [][pc = "calculate" =>
          /\ pc' = "save"
          /\ Len(output_df') = Len(enriched_executions_df)
          /\ \A i \in 1..Len(enriched_executions_df) :
                /\ \A c \in DOMAIN enriched_executions_df[i] :
                      /\ c \in DOMAIN output_df'[i]
                      /\ output_df'[i][c] = enriched_executions_df[i][c]
                /\ "slippage" \in DOMAIN output_df'[i]]_vars

\* The messages that end the stages before the save, in the order of run.
StageMessages ==
    <<"Marketdata count", "Market data event_timestamp ranges",
      "Filtered executions data count", "Enriched executions data count",
      "Calculation of metrics completed successfully.", "Saving file">>

Logged(msg) == \E i \in 1..Len(log) : log[i] = msg

\* C7: the output file exists only once every stage has completed, in order,
\* with no exception, and then holds the whole scored frame: a row for each
\* execution in continuous trading, each with its slippage.  A run that
\* raised has written nothing.
C7_NoPartialOutput ==
    /\ output_file.exists =>
          /\ error = ""
          /\ pc = "done"
          /\ \A k \in 1..Len(StageMessages) : Logged(StageMessages[k])
          /\ \A i, j \in 1..Len(log) : \A k \in 1..(Len(StageMessages) - 1) :
                (log[i] = StageMessages[k] /\ log[j] = StageMessages[k + 1]) => i < j
          /\ output_file.rows = output_df
          /\ Len(output_file.rows) >= Len(filtered_executions_df)
          /\ Len(filtered_executions_df) = Len(CleanExecutions(executions_file.rows))
          /\ \A i \in 1..Len(output_file.rows) :
                "slippage" \in DOMAIN output_file.rows[i]
    /\ error # "" => (pc = "failed" /\ ~output_file.exists)

\* A completed run that wrote two scored rows.
C7_Witness ==
    /\ output_file.exists
    /\ pc = "done"
    /\ Len(output_file.rows) = 2
    /\ Len(executions_file.rows) = 2

\* The bucket of g holds exactly two continuous ticks, quoted (10.4, 10.6)
\* and (10.6, 10.8).
TwoTickBucket(g) ==
    /\ Cardinality(ContinuousTicksOf(g)) = 2
    /\ {<<marketdata_df[i].best_bid_price, marketdata_df[i].best_ask_price>> :
            i \in ContinuousTicksOf(g)} = {<<104, 106>>, <<106, 108>>}

\* C8 as stated: the snapshot of such a bucket is (best_bid 10.6, best_ask 10.8).
C8_SnapshotAsStated ==
    IndexBuilt =>
        \A g \in agg_marketdata_df :
            TwoTickBucket(g) => (g.best_bid_price = 106 /\ g.best_ask_price = 108)

\* C8, amended: the snapshot of such a bucket is (best_bid 10.6, best_ask
\* 10.6), the maximum bid and the minimum ask.
C8_SnapshotMaxBidMinAsk ==
    IndexBuilt =>
        \A g \in agg_marketdata_df :
            TwoTickBucket(g) => (g.best_bid_price = 106 /\ g.best_ask_price = 106)

\* Such a bucket, with its snapshot.
C8_Witness ==
    /\ IndexBuilt
    /\ \E g \in agg_marketdata_df : TwoTickBucket(g) /\ g.best_ask_price = 106

\* C9: a positive Quantity is side 1 with the buy formula, a negative one
\* side 2 with the sell formula, and a Quantity of 0 is neither side: not in
\* the side column, and with a slippage of 0.
C9_SideBySign ==
    \A i \in 1..Len(enriched_executions_df) :
        LET row == enriched_executions_df[i]
        IN  /\ row.Quantity > 0 => row.side = 1
            /\ row.Quantity < 0 => row.side = 2
            /\ row.Quantity = 0 =>
                  /\ row.side \notin {1, 2}
                  /\ "slippage" \in DOMAIN row => row.slippage = Zero

\* C10: analyze_executions, transform_and_enrich_data and calculate_metrics
\* leave the frames they are given as they were on entry.
C10_InputsUnchanged ==
    [][/\ pc = "analyze" =>
            (executions_df' = executions_df /\ marketdata_df' = marketdata_df)
       /\ pc = "transform" =>
            (filtered_executions_df' = filtered_executions_df
             /\ refdata_df' = refdata_df)
       /\ pc = "calculate" =>
            (enriched_executions_df' = enriched_executions_df
             /\ marketdata_df' = marketdata_df)]_vars

====
